---- MODULE Spec2Model ----
\* A model of the document driver of TA_PROTOTYPE (lib/db/cosmosDB.js): the
\* encryption codec, the chainable query builder over one collection, the
\* change-stream subscription, and the hybrid adapter the driver is used under.
EXTENDS Integers, Sequences, FiniteSets, TLC

VARIABLES
    \* ---- codec (CosmosDB.encrypt / decrypt)
    text,          \* the value handed to encrypt
    cipherText,    \* the value handed to decrypt
    plain,         \* what decrypt returned
    codecPc,       \* "idle" | "encrypted" | "roundtrip" | "foreign"
    \* ---- collection and query builder (CosmosQueryBuilder)
    docs,          \* the stored documents of the collection, in insertion order
    filters,       \* this.filters: field -> condition
    orConditions,  \* this.orConditions: a list of alternatives
    orderField,    \* this.orderField
    orderDirection,\* this.orderDirection: 1 | -1
    limitCount,    \* this.limitCount
    offsetCount,   \* this.offsetCount
    selectFields,  \* this.selectFields: Null or a list of field names
    lastReturn,    \* what the last call returned to its caller
    asked,         \* history: field -> the condition last put to the builder
    inserted,      \* history: the records handed to postData, in order
    \* ---- change stream (CosmosDB.subscribe)
    watchOutcome,  \* "none" | "ok" | "threw": what collection.watch() did
    subReturn,     \* what subscribe() gave its caller
    stream,        \* "absent" | "open" | "closing" | "closed"
    pending,       \* native events the stream has not yet emitted
    delivered,     \* the notifications the subscriber's callback received
    unsubReturned, \* the unsubscribe function has returned
    lateCalls,     \* callback invocations that happened after that return
    \* ---- hybrid adapter (lib/db/databaseAdapter.js)
    hOps,          \* the operations issued so far, with their outcomes
    syncQueue,     \* detached secondary writes not yet settled
    secondaryLog,  \* write ops ever issued to the secondary
    replErrors,    \* secondary failures recorded for observability
    \* ---- IPC handlers (modules/ipc/ipcManager.js)
    ipcCall,       \* the last invocation: its channel, arguments and database outcomes
    ipcReply,      \* what the handler of that invocation resolved with
    \* ---- database manager (modules/database/databaseManager.js)
    processEnv,    \* process.env: the variables that are set, as strings
    dbType,        \* this.dbType
    db,            \* this.db: "null" or the class of the object it holds
    dbAdapter,     \* this.dbAdapter: "null" | "adapter"
    managerPc,     \* "none" | "constructed" | "initialized" | "failed" | "closed" | "closeFailed"
    \* ---- scripts/switch-db.js
    envFile,       \* the content of .env, a string of tokens ("\n" ends a line)
    envBefore,     \* history: the content of .env when the script last started
    argv,          \* process.argv[2] of the last run, "(none)" when not given
    exitStatus,    \* the exit status of the last run, Null before any run
    \* ---- history of one builder
    added,         \* the conditions added to the builder since table(), each with its field
    \* ---- CosmosDB (cosmosDB.js 336-630): the connection. A client is a number, 0 is null
    client,        \* this.client
    cosmosDb,      \* this.db, the number of the client it came from
    isConnected,   \* this.isConnected
    made,          \* history: the number of MongoClients constructed
    live,          \* history: the clients whose connect() resolved and that were not closed
    lastCall       \* history: the last of connect() and close(), and how it settled

codecVars == <<text, cipherText, plain, codecPc>>
queryVars == <<docs, filters, orConditions, orderField, orderDirection,
               limitCount, offsetCount, selectFields, lastReturn, asked,
               inserted>>
subVars == <<watchOutcome, subReturn, stream, pending, delivered,
             unsubReturned, lateCalls>>
hybridVars == <<hOps, syncQueue, secondaryLog, replErrors>>
ipcVars == <<ipcCall, ipcReply>>
managerVars == <<processEnv, dbType, db, dbAdapter, managerPc>>
switchVars == <<envFile, envBefore, argv, exitStatus>>
connVars == <<client, cosmosDb, isConnected, made, live, lastCall>>
appVars == <<ipcVars, managerVars, switchVars, added, connVars>>
vars == <<codecVars, queryVars, subVars, hybridVars, appVars>>

-----------------------------------------------------------------------------
\* Values. A JavaScript value is tagged by its type, so that values of
\* different types compare unequal instead of being incomparable.

Null == [null |-> TRUE]
Str(s) == [str |-> s]
Num(n) == [num |-> n]
Bool(b) == [bool |-> b]
List(items) == [list |-> items]
IsStr(v) == DOMAIN v = {"str"}
IsNum(v) == DOMAIN v = {"num"}
IsNull(v) == DOMAIN v = {"null"}

\* Strings are sequences of characters. "S" stands for an unpaired surrogate
\* code unit (a JavaScript string may hold one), "R" for U+FFFD.
RECURSIVE Concat(_)
Concat(ss) == IF ss = <<>> THEN <<>> ELSE Head(ss) \o Concat(Tail(ss))

SeqsUpTo(S, n) == UNION {[1..k -> S] : k \in 0..n}

-----------------------------------------------------------------------------
\* The encryption codec (cosmosDB.js 8-10, 406-430).
\*
\* aes-256-cbc is modelled by a cipher of the same shape at a reduced size:
\* bytes range over 0..ByteMod-1, a block holds BlockLen bytes, the block
\* cipher is a keyed permutation of blocks, blocks are chained from the iv as
\* in CBC, and the plaintext is padded as PKCS#7 pads it. A byte is written as
\* one digit where the source writes two hexadecimal digits.

BlockLen == 2
IV_LENGTH == BlockLen
ByteMod == BlockLen + 3
Bytes == 0..(ByteMod - 1)

\* utf8: the bytes 0..ByteMod-3 encode one character each, the pair
\* <<ByteMod-2, ByteMod-1>> encodes U+FFFD. An unpaired surrogate has no
\* encoding of its own and is written as U+FFFD; bytes that form no
\* character are read as U+FFFD.
CharTable == <<"a", ":", "1", "0", "b", "c">>
LeadByte == ByteMod - 2
ContByte == ByteMod - 1
AsciiChars == {CharTable[i] : i \in 1..(ByteMod - 2)}
WellFormedChars == AsciiChars \cup {"R"}
AllChars == WellFormedChars \cup {"S"}
ByteOfChar(c) == CHOOSE b \in 0..(ByteMod - 3) : CharTable[b + 1] = c

RECURSIVE Utf8Encode(_)
Utf8Encode(s) ==
    IF s = <<>> THEN <<>>
    ELSE (IF Head(s) \in {"R", "S"} THEN <<LeadByte, ContByte>>
          ELSE <<ByteOfChar(Head(s))>>) \o Utf8Encode(Tail(s))

RECURSIVE Utf8Decode(_)
Utf8Decode(b) ==
    IF b = <<>> THEN <<>>
    ELSE IF Head(b) < LeadByte THEN <<CharTable[Head(b) + 1]>> \o Utf8Decode(Tail(b))
    ELSE IF Head(b) = LeadByte /\ Len(b) >= 2 /\ b[2] = ContByte
         THEN <<"R">> \o Utf8Decode(Tail(Tail(b)))
    ELSE <<"R">> \o Utf8Decode(Tail(b))

\* SECRET_KEY: fixed when the module is loaded.
SECRET_KEY == [i \in 1..BlockLen |-> (2 * i + 1) % ByteMod]

AddBlock(x, y) == [i \in 1..BlockLen |-> (x[i] + y[i]) % ByteMod]
SubBlock(x, y) == [i \in 1..BlockLen |-> (x[i] - y[i] + ByteMod) % ByteMod]
EncBlock(blk) == AddBlock(blk, SECRET_KEY)
DecBlock(blk) == SubBlock(blk, SECRET_KEY)

\* cipher.update + cipher.final: PKCS#7 padding, then CBC from the iv.
Pad(b) ==
    LET n == BlockLen - (Len(b) % BlockLen)
    IN  b \o [i \in 1..n |-> n]

RECURSIVE CbcEncrypt(_, _)
CbcEncrypt(b, prev) ==
    IF b = <<>> THEN <<>>
    ELSE LET c == EncBlock(AddBlock(SubSeq(b, 1, BlockLen), prev))
         IN  c \o CbcEncrypt(SubSeq(b, BlockLen + 1, Len(b)), c)

RECURSIVE CbcDecrypt(_, _)
CbcDecrypt(b, prev) ==
    IF b = <<>> THEN <<>>
    ELSE LET c == SubSeq(b, 1, BlockLen)
         IN  SubBlock(DecBlock(c), prev)
             \o CbcDecrypt(SubSeq(b, BlockLen + 1, Len(b)), c)

\* decipher.final: the padding is checked and removed; a body that is empty,
\* not a whole number of blocks, or badly padded makes it throw.
PadOk(b) ==
    /\ Len(b) > 0
    /\ Len(b) % BlockLen = 0
    /\ b[Len(b)] \in 1..BlockLen
    /\ \A i \in (Len(b) - b[Len(b)] + 1)..Len(b) : b[i] = b[Len(b)]
UnpadOneByte(b) == SubSeq(b, 1, Len(b) - 1)
Unpad(b) == SubSeq(b, 1, Len(b) - b[Len(b)])

\* 'hex': lower-case digits are written; either case is read, and reading
\* stops at the first character that is no digit.
HexDigits == <<"0", "1", "a", "b", "c", "d", "e", "f">>
HexUpper == <<"0", "1", "A", "B", "C", "D", "E", "F">>
IsHexChar(c) == \E b \in Bytes : HexDigits[b + 1] = c \/ HexUpper[b + 1] = c
HexValue(c) == CHOOSE b \in Bytes : HexDigits[b + 1] = c \/ HexUpper[b + 1] = c
HexEncode(b) == [i \in 1..Len(b) |-> HexDigits[b[i] + 1]]

RECURSIVE HexDecode(_)
HexDecode(s) ==
    IF s = <<>> \/ ~IsHexChar(Head(s)) THEN <<>>
    ELSE <<HexValue(Head(s))>> \o HexDecode(Tail(s))

\* String.prototype.includes(':') and split(':') / shift() / join(':').
HasColon(s) == \E i \in 1..Len(s) : s[i] = ":"
FirstColon(s) == CHOOSE i \in 1..Len(s) : s[i] = ":" /\ \A j \in 1..(i - 1) : s[j] # ":"
IvPart(s) == SubSeq(s, 1, FirstColon(s) - 1)
DataPart(s) == SubSeq(s, FirstColon(s) + 1, Len(s))

\* String(text), for the strings the codec is given.
StringOf(v) == v.str

\* encrypt(text), with the iv crypto.randomBytes drew (406-413).
encrypt(v, iv) ==
    IF IsNull(v) THEN v
    ELSE Str(HexEncode(iv) \o <<":">>
             \o HexEncode(CbcEncrypt(Pad(Utf8Encode(StringOf(v))), iv)))

\* What the try block of decrypt computes, and whether it throws (419-426):
\* createDecipheriv throws on an iv that is not IV_LENGTH bytes, final() on a
\* body that is empty, not a whole number of blocks, or badly padded.
DecipherBytes(s) == CbcDecrypt(HexDecode(DataPart(s)), HexDecode(IvPart(s)))
DecipherOk(s) ==
    /\ Len(HexDecode(IvPart(s))) = IV_LENGTH
    /\ Len(HexDecode(DataPart(s))) > 0
    /\ Len(HexDecode(DataPart(s))) % BlockLen = 0
    /\ PadOk(DecipherBytes(s))
Decipher(s) == Utf8Decode(Unpad(DecipherBytes(s)))

\* decrypt(encryptedText) (415-430).
decrypt(v) ==
    IF ~IsStr(v) THEN v
    ELSE IF ~HasColon(v.str) THEN v
    ELSE IF DecipherOk(v.str) THEN Str(Decipher(v.str))
    ELSE v

-----------------------------------------------------------------------------
\* The codec at work: a string is encrypted under a fresh iv and decrypted
\* again, or decrypt is handed a value that encrypt did not write.

MaxStrLen == 2
MaxRawLen == 3

PlainTexts == {Str(s) : s \in SeqsUpTo(AllChars, MaxStrLen)}
IVs == [1..IV_LENGTH -> Bytes]

\* Values found in the store that encrypt did not write: other types, plain
\* text with and without a colon, and ciphertexts that were altered in
\* storage or written under another key.
RawChars == {"0", "a", "A", ":", "z"}
UpperOf(c) ==
    IF \E b \in Bytes : HexDigits[b + 1] = c
    THEN HexUpper[(CHOOSE b \in Bytes : HexDigits[b + 1] = c) + 1]
    ELSE c
Altered(c) ==
    {[i \in 1..Len(c) |-> UpperOf(c[i])],
     SubSeq(c, 1, Len(c) - 1),
     Tail(c),
     SubSeq(c, 1, FirstColon(c) - 1) \o DataPart(c)}
    \cup {[c EXCEPT ![Len(c)] = HexDigits[b + 1]] : b \in Bytes}
ForeignValues ==
    {Null, Num(0)}
    \cup {Str(s) : s \in SeqsUpTo(RawChars, MaxRawLen)}
    \cup {Str(a) : a \in UNION {Altered(encrypt(Str(s), iv).str) :
                                   s \in SeqsUpTo(AsciiChars, 1), iv \in IVs}}

\* v is a string encrypt can return: it decrypts, and encrypting what it
\* decrypts to under its own iv writes v again.
IsEncryptOutput(v) ==
    /\ IsStr(v)
    /\ HasColon(v.str)
    /\ DecipherOk(v.str)
    /\ encrypt(Str(Decipher(v.str)), HexDecode(IvPart(v.str))) = v

CodecIdle ==
    /\ text = Null
    /\ cipherText = Null
    /\ plain = Null
    /\ codecPc = "idle"

Encrypt(x, iv) ==
    /\ codecPc = "idle"
    /\ text' = x
    /\ cipherText' = encrypt(x, iv)
    /\ codecPc' = "encrypted"
    /\ UNCHANGED plain

DecryptWritten ==
    /\ codecPc = "encrypted"
    /\ plain' = decrypt(cipherText)
    /\ codecPc' = "roundtrip"
    /\ UNCHANGED <<text, cipherText>>

DecryptForeign(v) ==
    /\ codecPc = "idle"
    /\ cipherText' = v
    /\ plain' = decrypt(v)
    /\ codecPc' = "foreign"
    /\ UNCHANGED text

-----------------------------------------------------------------------------
\* Documents and the store (the MongoDB API the driver calls).

Undefined == [undefined |-> TRUE]
Date == [date |-> TRUE]
Oid(n) == [oid |-> n]
NoField == "(null)"

\* ObjectId.toString(): one character per identifier.
OidChars == <<"1", "2", "3", "4", "5", "6">>
OidString(oid) == Str(<<OidChars[oid.oid]>>)

\* doc[field], Undefined when the document has no such field.
FieldOf(doc, field) == IF field \in DOMAIN doc THEN doc[field] ELSE Undefined
IsNullish(v) == v = Null \/ v = Undefined

\* How the store matches one operator of a compiled query against a value.
\* Equality with null also matches a missing field; the order comparisons
\* hold between two numbers only, and between null and null for gte/lte.
MatchEq(operand, dv) ==
    IF IsNullish(operand) THEN IsNullish(dv) ELSE dv = operand
MatchOrder(op, operand, dv) ==
    IF IsNum(operand) /\ IsNum(dv)
    THEN CASE op = "gt" -> dv.num > operand.num
           [] op = "gte" -> dv.num >= operand.num
           [] op = "lt" -> dv.num < operand.num
           [] op = "lte" -> dv.num <= operand.num
    ELSE op \in {"gte", "lte"} /\ IsNullish(operand) /\ IsNullish(dv)
MatchOp(op, operand, dv) ==
    CASE op = "eq" -> MatchEq(operand, dv)
      [] op = "ne" -> ~MatchEq(operand, dv)
      [] op \in {"gt", "gte", "lt", "lte"} -> MatchOrder(op, operand, dv)
      [] op = "in" -> \E i \in 1..Len(operand) : MatchEq(operand[i], dv)
      [] op = "nin" -> ~\E i \in 1..Len(operand) : MatchEq(operand[i], dv)

\* A compiled query maps fields to conditions, a condition maps operators
\* to operands (all must hold), and "or" lists the $or branches.
MatchFields(q, doc) ==
    \A f \in DOMAIN q : \A op \in DOMAIN q[f] : MatchOp(op, q[f][op], FieldOf(doc, f))
Matches(query, doc) ==
    /\ MatchFields(query.fields, doc)
    /\ query.or # <<>> => \E i \in 1..Len(query.or) : MatchFields(query.or[i], doc)

\* collection.find(query): the matching documents, in stored order.
RECURSIVE Find(_, _)
Find(query, ds) ==
    IF ds = <<>> THEN <<>>
    ELSE (IF Matches(query, Head(ds)) THEN <<Head(ds)>> ELSE <<>>)
         \o Find(query, Tail(ds))

\* cursor.sort: null and missing sort before numbers, numbers by value.
SortRank(v) == IF IsNullish(v) THEN 0 ELSE IF IsNum(v) THEN 1 ELSE 2
SortLE(a, b) ==
    \/ SortRank(a) < SortRank(b)
    \/ SortRank(a) = SortRank(b) /\ (IsNum(a) => a.num <= b.num)
Perms(n) == {p \in [1..n -> 1..n] : \A i, j \in 1..n : p[i] = p[j] => i = j}
\* The orders in which the store may hand out ds: any order when no sort is
\* asked for, else any order that is sorted on the field in the direction.
Orders(ds, field, dir) ==
    {[i \in 1..Len(ds) |-> ds[p[i]]] : p \in
        {q \in Perms(Len(ds)) :
            field # NoField =>
                \A i \in 1..(Len(ds) - 1) :
                    IF dir = 1
                    THEN SortLE(FieldOf(ds[q[i]], field), FieldOf(ds[q[i + 1]], field))
                    ELSE SortLE(FieldOf(ds[q[i + 1]], field), FieldOf(ds[q[i]], field))}}

\* cursor.skip(k).limit(n); n = 0 stands for no limit.
PageLimitThenSkip(ds, k, n) ==
    SubSeq(ds, k + 1, IF n = 0 \/ n > Len(ds) THEN Len(ds) ELSE n)
Page(ds, k, n) ==
    SubSeq(ds, k + 1, IF n = 0 \/ k + n > Len(ds) THEN Len(ds) ELSE k + n)

-----------------------------------------------------------------------------
\* CosmosQueryBuilder (cosmosDB.js 12-335) and the driver's postData.

Cond(operator, value) == [operator |-> operator, value |-> value]
IsCond(c) == DOMAIN c = {"operator", "value"}
EmptyMap == [f \in {} |-> Undefined]

\* Truthiness of the values limitCount and offsetCount hold.
Truthy(v) == ~IsNullish(v) /\ (IsNum(v) => v.num # 0)

\* One field of _buildMongoQuery's switch (247-296). A condition that is not
\* an {operator, value} object is compared for equality.
CompileBetweenExclusive(value) == [gt |-> value[1], lt |-> value[2]]
CompileBetween(value) == [gte |-> value[1], lte |-> value[2]]
Compile(c) ==
    IF ~IsCond(c) THEN [eq |-> c]
    ELSE CASE c.operator \in {"=", "=="} -> [eq |-> c.value]
           [] c.operator \in {"!=", "<>"} -> [ne |-> c.value]
           [] c.operator = ">" -> [gt |-> c.value]
           [] c.operator = ">=" -> [gte |-> c.value]
           [] c.operator = "<" -> [lt |-> c.value]
           [] c.operator = "<=" -> [lte |-> c.value]
           [] c.operator = "in" -> [in |-> c.value]
           [] c.operator = "not-in" -> [nin |-> c.value]
           [] c.operator = "between" -> CompileBetween(c.value)
           [] c.operator = "like" -> [regex |-> c.value]
           [] c.operator = "null" -> [eq |-> Null]
           [] c.operator = "not-null" -> [ne |-> Null]
           [] OTHER -> [eq |-> c.value]

\* One $or branch (301-311): only '=' is compiled, any other operator
\* leaves the branch without the field.
CompileOr(alt) ==
    [f \in {g \in DOMAIN alt : alt[g].operator = "="} |-> [eq |-> alt[f].value]]

\* _buildMongoQuery (240-316): a filter on _id is skipped.
buildMongoQuery(fs, ors) ==
    [fields |-> [f \in DOMAIN fs \ {"_id"} |-> Compile(fs[f])],
     or |-> [i \in 1..Len(ors) |-> CompileOr(ors[i])]]

\* _decryptRow (445-461): every string holding a colon is decrypted, and
\* what decrypted to the text of a number becomes that number.
Digits == {"0", "1"}
LooksNumeric(s) == \A i \in 1..Len(s) : s[i] \in Digits
RECURSIVE DecimalValue(_)
DecimalValue(s) ==
    IF s = <<>> THEN 0
    ELSE 10 * DecimalValue(SubSeq(s, 1, Len(s) - 1)) + (IF s[Len(s)] = "1" THEN 1 ELSE 0)
DecryptField(v) ==
    IF IsStr(v) /\ HasColon(v.str)
    THEN IF decrypt(v) # v /\ LooksNumeric(decrypt(v).str)
         THEN Num(DecimalValue(decrypt(v).str))
         ELSE decrypt(v)
    ELSE v
decryptRow(row) ==
    [k \in DOMAIN row |-> IF k = "_id" THEN row[k] ELSE DecryptField(row[k])]

\* _encryptData (432-443): the fields whose name holds one of password,
\* email, phone, address, name are encrypted.
SensitiveNames == {"name", "email", "username"}
encryptData(data, iv) ==
    [k \in DOMAIN data |-> IF k \in SensitiveNames THEN encrypt(data[k], iv) ELSE data[k]]

\* What get() makes of one stored document (164-167): id first, then the
\* decrypted fields spread over it.
Exposed(doc) ==
    [k \in DOMAIN doc \cup {"id"} |->
        IF k \in DOMAIN doc THEN decryptRow(doc)[k] ELSE OidString(doc["_id"])]

QueryIdle ==
    /\ docs = <<>>
    /\ filters = EmptyMap
    /\ orConditions = <<>>
    /\ orderField = NoField
    /\ orderDirection = 1
    /\ limitCount = Null
    /\ offsetCount = Num(0)
    /\ selectFields = Null
    /\ lastReturn = [op |-> "none"]
    /\ asked = EmptyMap
    /\ inserted = <<>>

builderVars == <<filters, orConditions, orderField, orderDirection, limitCount,
                 offsetCount, selectFields, asked>>
ReturnThis == lastReturn' = [op |-> "builder"]

\* postData(collectionName, data) (464-482).
postData(data, iv) ==
    /\ docs' = Append(docs,
                  [k \in DOMAIN data \cup {"_id", "created_at", "updated_at"} |->
                      IF k = "_id" THEN Oid(Len(inserted) + 1)
                      ELSE IF k \in {"created_at", "updated_at"} THEN Date
                      ELSE encryptData(data, iv)[k]])
    /\ lastReturn' = [op |-> "postData", insertId |-> OidString(Oid(Len(inserted) + 1)),
                      affectedRows |-> 1]
    /\ inserted' = Append(inserted, data)
    /\ UNCHANGED builderVars

\* table(collectionName) (373-375): a fresh builder.
table ==
    /\ filters' = EmptyMap
    /\ orConditions' = <<>>
    /\ orderField' = NoField
    /\ orderDirection' = 1
    /\ limitCount' = Null
    /\ offsetCount' = Num(0)
    /\ selectFields' = Null
    /\ asked' = EmptyMap
    /\ ReturnThis
    /\ UNCHANGED <<docs, inserted>>

Put(m, field, c) == [f \in DOMAIN m \cup {field} |-> IF f = field THEN c ELSE m[f]]
SetFilter(field, c) ==
    /\ filters' = Put(filters, field, c)
    /\ asked' = Put(asked, field, c)
    /\ ReturnThis
    /\ UNCHANGED <<docs, inserted, selectFields, orConditions, orderField, orderDirection, limitCount, offsetCount>>

\* where(field, operator, value) and where(field, value) (35-47).
where(field, operator, value) == SetFilter(field, Cond(operator, value))
where2(field, value) == SetFilter(field, Cond("=", value))

\* whereIn / whereNotIn (49-61): an empty list adds nothing.
whereIn(field, values) ==
    IF Len(values) > 0 THEN SetFilter(field, Cond("in", values))
    ELSE /\ asked' = Put(asked, field, Cond("in", values))
         /\ ReturnThis
         /\ UNCHANGED <<docs, inserted, selectFields, filters, orConditions, orderField, orderDirection,
                        limitCount, offsetCount>>
whereNotIn(field, values) ==
    IF Len(values) > 0 THEN SetFilter(field, Cond("not-in", values))
    ELSE /\ asked' = Put(asked, field, Cond("not-in", values))
         /\ ReturnThis
         /\ UNCHANGED <<docs, inserted, selectFields, filters, orConditions, orderField, orderDirection,
                        limitCount, offsetCount>>

\* whereBetween, whereNull, whereNotNull (63-76).
whereBetween(field, min, max) == SetFilter(field, Cond("between", <<min, max>>))
whereNull(field) == SetFilter(field, Cond("null", Undefined))
whereNotNull(field) == SetFilter(field, Cond("not-null", Undefined))

MaxOr == 1

\* orWhere(field, operator, value) (83-94).
orWhere(field, operator, value) ==
    /\ Len(orConditions) < MaxOr
    /\ orConditions' = Append(orConditions, [f \in {field} |-> Cond(operator, value)])
    /\ ReturnThis
    /\ UNCHANGED <<docs, inserted, selectFields, filters, orderField, orderDirection, limitCount, offsetCount, asked>>

\* orderBy / orderByDesc / orderByAsc (97-109).
ToUpperCase(d) == CASE d = "desc" -> "DESC" [] d = "asc" -> "ASC" [] OTHER -> d
orderBy(field, direction) ==
    /\ orderField' = field
    /\ orderDirection' = (IF ToUpperCase(direction) = "DESC" THEN -1 ELSE 1)
    /\ ReturnThis
    /\ UNCHANGED <<docs, inserted, selectFields, filters, orConditions, limitCount, offsetCount, asked>>
orderByDesc(field) == orderBy(field, "DESC")
orderByAsc(field) == orderBy(field, "ASC")

\* limit(count, offset = null), take(count), skip(offset) (112-127).
limit(count, offset) ==
    /\ limitCount' = count
    /\ offsetCount' = (IF offset # Null THEN offset ELSE offsetCount)
    /\ ReturnThis
    /\ UNCHANGED <<docs, inserted, selectFields, filters, orConditions, orderField, orderDirection, asked>>
take(count) == limit(count, Null)
skip(offset) ==
    /\ offsetCount' = offset
    /\ ReturnThis
    /\ UNCHANGED <<docs, inserted, selectFields, filters, orConditions, orderField, orderDirection, limitCount, asked>>

\* get() (130-173): find, sort when an order is set, skip when the offset
\* is positive, limit when the limit is truthy, then expose each document.
SkipOf(offset) == IF IsNum(offset) /\ offset.num > 0 THEN offset.num ELSE 0
LimitOf(count) == IF Truthy(count) THEN count.num ELSE 0
\* _buildProjection (319-329) and cursor.project: with a non-empty list of
\* fields a document keeps those fields and its _id.
Project(doc, fields) ==
    IF fields = Null \/ fields = List(<<>>) THEN doc
    ELSE [k \in {f \in DOMAIN doc : f = "_id" \/ \E i \in 1..Len(fields.list) : fields.list[i] = f}
             |-> doc[k]]
\* The record lists get() may return on a builder of the given fields.
Results(limitValue, fields) ==
    {[i \in 1..Len(paged) |-> Exposed(Project(paged[i], fields))] :
        paged \in {Page(ordered, SkipOf(offsetCount), LimitOf(limitValue)) :
                     ordered \in Orders(Find(buildMongoQuery(filters, orConditions), docs),
                                        orderField, orderDirection)}}
get ==
    /\ \E records \in Results(limitCount, selectFields) :
          lastReturn' = [op |-> "get", records |-> records]
    /\ UNCHANGED <<docs, inserted, builderVars>>

\* select(fields) (25-32), for a list of names.
select(fields) ==
    /\ selectFields' = List(fields)
    /\ ReturnThis
    /\ UNCHANGED <<docs, inserted, filters, orConditions, orderField, orderDirection,
                   limitCount, offsetCount, asked>>

\* first() (175-179): limit(1), get(), the head or null.
first ==
    /\ limitCount' = Num(1)
    /\ \E records \in Results(Num(1), selectFields) :
          lastReturn' = [op |-> "first",
                         record |-> IF Len(records) > 0 THEN records[1] ELSE Null]
    /\ UNCHANGED <<docs, inserted, filters, orConditions, orderField, orderDirection,
                   offsetCount, selectFields, asked>>

\* exists() (192-195) and pluck(field) (197-201): select(field), get(), and
\* the field's value of each row.
exists ==
    /\ lastReturn' = [op |-> "exists",
                      value |-> Bool(Len(Find(buildMongoQuery(filters, orConditions), docs)) > 0)]
    /\ UNCHANGED <<docs, inserted, builderVars>>
pluck(field) ==
    /\ selectFields' = List(<<field>>)
    /\ \E records \in Results(limitCount, List(<<field>>)) :
          lastReturn' = [op |-> "pluck",
                         values |-> [i \in 1..Len(records) |-> FieldOf(records[i], field)]]
    /\ UNCHANGED <<docs, inserted, filters, orConditions, orderField, orderDirection,
                   limitCount, offsetCount, asked>>

\* count() (181-190).
count ==
    /\ lastReturn' = [op |-> "count",
                      value |-> Len(Find(buildMongoQuery(filters, orConditions), docs))]
    /\ UNCHANGED <<docs, inserted, builderVars>>

\* collection.deleteMany(query) (231): what is left of ds, and deleteOne's
\* remainder, which loses the first match only.
RECURSIVE DeleteOneFrom(_, _)
DeleteOneFrom(query, ds) ==
    IF ds = <<>> THEN <<>>
    ELSE IF Matches(query, Head(ds)) THEN Tail(ds)
    ELSE <<Head(ds)>> \o DeleteOneFrom(query, Tail(ds))
RECURSIVE DeleteManyFrom(_, _)
DeleteManyFrom(query, ds) ==
    IF ds = <<>> THEN <<>>
    ELSE (IF Matches(query, Head(ds)) THEN <<>> ELSE <<Head(ds)>>)
         \o DeleteManyFrom(query, Tail(ds))

\* delete() (226-237).
delete ==
    /\ docs' = DeleteManyFrom(buildMongoQuery(filters, orConditions), docs)
    /\ lastReturn' = [op |-> "delete", affectedRows |-> Len(docs) - Len(docs')]
    /\ UNCHANGED <<inserted, builderVars>>

\* update(data) (204-223): throws on an empty patch; else every matching
\* document takes the encrypted patch and a new updated_at, and
\* modifiedCount, the number of documents so changed, is returned.
UpdateManyIn(query, set, ds) ==
    [i \in 1..Len(ds) |->
        IF Matches(query, ds[i])
        THEN [k \in DOMAIN ds[i] \cup DOMAIN set |->
                 IF k \in DOMAIN set THEN set[k] ELSE ds[i][k]]
        ELSE ds[i]]
update(data, iv) ==
    /\ IF data = EmptyMap
       THEN /\ lastReturn' = [op |-> "update", outcome |-> "rejected"]
            /\ UNCHANGED docs
       ELSE /\ docs' = UpdateManyIn(buildMongoQuery(filters, orConditions),
                                    Put(encryptData(data, iv), "updated_at", Date), docs)
            /\ lastReturn' = [op |-> "update", outcome |-> "resolved",
                              affectedRows |->
                                  Len(Find(buildMongoQuery(filters, orConditions), docs))]
    /\ UNCHANGED <<inserted, builderVars>>

\* _parseWhereClause(whereClause, whereParams) (561-581). A clause is a
\* string over tokens: words, operators, "?", "AND", "OR". Each piece
\* between ANDs is searched for the first word followed by one of the seven
\* operators and a "?"; a piece that has one takes the next parameter, when
\* one is left, and any other piece is passed over.
WhereOperators == {"=", "!=", ">", ">=", "<", "<=", "LIKE"}
IsWord(token) == token \notin WhereOperators \cup {"?", "<>", "(", ")"}
MatchCondition(condition) ==
    LET at == {i \in 1..(Len(condition) - 2) :
                  /\ IsWord(condition[i])
                  /\ condition[i + 1] \in WhereOperators
                  /\ condition[i + 2] = "?"}
    IN  IF at = {} THEN <<>>
        ELSE LET i == CHOOSE j \in at : \A k \in at : j <= k
             IN  <<condition[i], IF condition[i + 1] = "LIKE" THEN "like" ELSE condition[i + 1]>>
SplitAnd(whereClause) ==
    LET breaks == {i \in 1..Len(whereClause) : whereClause[i] = "AND"}
        Break(k) == IF k = 0 THEN 0
                    ELSE IF k > Cardinality(breaks) THEN Len(whereClause) + 1
                    ELSE CHOOSE i \in breaks : Cardinality({j \in breaks : j <= i}) = k
    IN  [k \in 1..Cardinality(breaks) + 1 |->
            SubSeq(whereClause, Break(k - 1) + 1, Break(k) - 1)]
RECURSIVE ParseConditions(_, _, _)
ParseConditions(conditions, whereParams, paramIndex) ==
    IF conditions = <<>> THEN EmptyMap
    ELSE IF MatchCondition(Head(conditions)) # <<>> /\ paramIndex < Len(whereParams)
         THEN LET match == MatchCondition(Head(conditions))
                  later == ParseConditions(Tail(conditions), whereParams, paramIndex + 1)
              IN  [f \in DOMAIN later \cup {match[1]} |->
                      IF f \in DOMAIN later THEN later[f]
                      ELSE Cond(match[2], whereParams[paramIndex + 1])]
         ELSE ParseConditions(Tail(conditions), whereParams, paramIndex)
parseWhereClause(whereClause, whereParams) ==
    IF whereClause = <<>> THEN EmptyMap
    ELSE ParseConditions(SplitAnd(whereClause), whereParams, 0)

\* updateData and deleteData (484-506): a builder of their own takes the
\* parsed clause as a filters object and update(data) or delete() answers.
updateData(data, iv, whereClause, whereParams) ==
    /\ IF data = EmptyMap
       THEN /\ lastReturn' = [op |-> "updateData", outcome |-> "rejected",
                              whereClause |-> whereClause, whereParams |-> whereParams]
            /\ UNCHANGED docs
       ELSE LET q == buildMongoQuery(parseWhereClause(whereClause, whereParams), <<>>)
            IN  /\ docs' = UpdateManyIn(q, Put(encryptData(data, iv), "updated_at", Date), docs)
                /\ lastReturn' = [op |-> "updateData", outcome |-> "resolved",
                                  whereClause |-> whereClause, whereParams |-> whereParams,
                                  affectedRows |-> Len(Find(q, docs))]
    /\ UNCHANGED <<inserted, builderVars>>
deleteData(whereClause, whereParams) ==
    /\ docs' = DeleteManyFrom(buildMongoQuery(parseWhereClause(whereClause, whereParams), <<>>),
                              docs)
    /\ lastReturn' = [op |-> "deleteData", outcome |-> "resolved",
                      whereClause |-> whereClause, whereParams |-> whereParams,
                      affectedRows |-> Len(docs) - Len(docs')]
    /\ UNCHANGED <<inserted, builderVars>>

\* raw(query, params) (331-334) and CosmosDB.query(sql, params) (639-642):
\* a warning is logged and the promise resolves with an empty list.
raw(sql) ==
    /\ lastReturn' = [op |-> "raw", sql |-> sql, outcome |-> "resolved", records |-> <<>>]
    /\ UNCHANGED <<docs, inserted, builderVars>>
query(sql) ==
    /\ lastReturn' = [op |-> "query", sql |-> sql, outcome |-> "resolved", records |-> <<>>]
    /\ UNCHANGED <<docs, inserted, builderVars>>

\* getDataByFilters(collectionName, filters, options) (508-540): a builder of
\* its own takes the filters object, the order (DESC unless the second word
\* of orderBy names one) and a limit that is a positive integer, and get()
\* answers; options.count is not read.
\* options.orderBy.trim().split(/\s+/): the words of the string.
Words(ws) == [words |-> ws]
OptionOrderField(options) ==
    IF Truthy(FieldOf(options, "orderBy")) THEN FieldOf(options, "orderBy").words[1] ELSE NoField
OptionOrderDirection(options) ==
    IF Truthy(FieldOf(options, "orderBy"))
    THEN IF Len(FieldOf(options, "orderBy").words) >= 2
            /\ ToUpperCase(FieldOf(options, "orderBy").words[2]) # "DESC"
         THEN 1 ELSE -1
    ELSE 1
OptionLimit(options) ==
    IF Truthy(FieldOf(options, "limit")) /\ IsNum(FieldOf(options, "limit"))
       /\ FieldOf(options, "limit").num > 0
    THEN FieldOf(options, "limit").num ELSE 0
getDataByFilters(fs, options) ==
    /\ \E ordered \in Orders(Find(buildMongoQuery(fs, <<>>), docs),
                              OptionOrderField(options), OptionOrderDirection(options)) :
          LET paged == Page(ordered, 0, OptionLimit(options))
          IN  lastReturn' = [op |-> "getDataByFilters", filters |-> fs, options |-> options,
                             records |-> [i \in 1..Len(paged) |-> Exposed(paged[i])]]
    /\ UNCHANGED <<docs, inserted, builderVars>>

-----------------------------------------------------------------------------
SubIdle ==
    /\ watchOutcome = "none"
    /\ subReturn = "none"
    /\ stream = "absent"
    /\ pending = <<>>
    /\ delivered = <<>>
    /\ unsubReturned = FALSE
    /\ lateCalls = 0

MaxEvents == 3
ChangeTypes == {"insert", "update", "delete"}
OperationTypes == ChangeTypes \cup {"replace", "drop", "invalidate"}
CollectionName == "sensors"

\* A native change event and a stream error, as the driver hands them to
\* the 'change' and 'error' listeners.  An event without a full document
\* (delete, drop, invalidate) has fullDocument undefined.
ChangeEvent(operationType, oid, fullDocument) ==
    [operationType |-> operationType, documentKey |-> oid, fullDocument |-> fullDocument]
StreamError == [message |-> "stream failed"]
IsStreamError(ev) == "message" \in DOMAIN ev

\* What the 'change' (589-597) and 'error' (599-606) handlers hand to the
\* callback.
Notification(ev) ==
    IF IsStreamError(ev)
    THEN [type |-> "error", error |-> ev.message, collection |-> CollectionName]
    ELSE [type |-> ev.operationType,
          id |-> OidString(ev.documentKey),
          data |-> IF ev.fullDocument = Undefined THEN EmptyMap
                   ELSE decryptRow(ev.fullDocument),
          collection |-> CollectionName]

\* subscribe(collectionName, callback): collection.watch() either yields a
\* change stream, and the unsubscribe function is returned, or throws, and
\* the catch block returns the empty function.
subscribe(watchOk) ==
    /\ subReturn = "none"
    /\ IF watchOk
       THEN /\ watchOutcome' = "ok"
            /\ stream' = "open"
            /\ subReturn' = "unsubscribe"
       ELSE /\ watchOutcome' = "threw"
            /\ stream' = "absent"
            /\ subReturn' = "empty"
    /\ UNCHANGED <<pending, delivered, unsubReturned, lateCalls>>

\* The store reports a change, or the stream fails: the event is in the
\* driver, its handler not yet run.  The cursor stays live until close()
\* has settled.
EventArrives(ev) ==
    /\ stream \in {"open", "closing"}
    /\ Len(pending) + Len(delivered) < MaxEvents
    /\ pending' = Append(pending, ev)
    /\ UNCHANGED <<watchOutcome, subReturn, stream, delivered, unsubReturned, lateCalls>>

\* The 'change' or 'error' handler runs and calls the callback.  Neither
\* handler looks at whether unsubscribe was called.
HandlerRuns ==
    /\ stream \in {"open", "closing"}
    /\ pending # <<>>
    /\ delivered' = Append(delivered, Notification(Head(pending)))
    /\ pending' = Tail(pending)
    /\ lateCalls' = IF unsubReturned THEN lateCalls + 1 ELSE lateCalls
    /\ UNCHANGED <<watchOutcome, subReturn, stream, unsubReturned>>

\* The driver discards an event of a stream that is being closed.
DriverDiscards ==
    /\ stream = "closing"
    /\ pending # <<>>
    /\ pending' = Tail(pending)
    /\ UNCHANGED <<watchOutcome, subReturn, stream, delivered, unsubReturned, lateCalls>>

\* The caller runs the function subscribe returned: changeStream.close() is
\* started and not awaited, or nothing at all is done.
unsubscribe ==
    /\ subReturn \in {"unsubscribe", "empty"}
    /\ ~unsubReturned
    /\ unsubReturned' = TRUE
    /\ stream' = IF subReturn = "unsubscribe" THEN "closing" ELSE stream
    /\ UNCHANGED <<watchOutcome, subReturn, pending, delivered, lateCalls>>

\* The promise of changeStream.close() settles: the listeners are gone.
CloseSettles ==
    /\ stream = "closing"
    /\ stream' = "closed"
    /\ pending' = <<>>
    /\ UNCHANGED <<watchOutcome, subReturn, delivered, unsubReturned, lateCalls>>

\* postData on the watched collection: the document is stored and the store
\* reports the insert, with the stored document, to the open stream.
InsertWatched(data, iv) ==
    /\ stream = "open"
    /\ postData(data, iv)
    /\ pending' = Append(pending, ChangeEvent("insert", Oid(Len(inserted) + 1), docs'[Len(docs')]))
    /\ UNCHANGED <<watchOutcome, subReturn, stream, delivered, unsubReturned, lateCalls>>

HybridIdle ==
    /\ hOps = <<>>
    /\ syncQueue = {}
    /\ secondaryLog = {}
    /\ replErrors = {}

\* The hybrid coordinator.
MaxHybridOps == 3
WriteKinds == {"insert", "update", "delete"}

\* Whether a write is handed to the secondary, by the primary's outcome.
IssuesSecondaryAlways(primaryOk) == TRUE
IssuesSecondary(primaryOk) == primaryOk

\* What the caller of a write holds, by the primary's outcome and the state
\* of the detached sync ("none", "pending", "done", "failed").
WriteResultFollowsSync(primaryOk, sync) ==
    IF primaryOk /\ sync # "failed" THEN "success" ELSE "error"
WriteResult(primaryOk, sync) == IF primaryOk THEN "success" ELSE "error"

SyncState(id) ==
    IF id \in syncQueue THEN "pending"
    ELSE IF id \in secondaryLog THEN "done"
    ELSE IF id \in replErrors THEN "failed"
    ELSE "none"

\* Where a read is served from, by the primary's outcome; earlier
\* operations are at hand and not consulted.
ReadRouteSticky(primaryOk, earlier) ==
    IF primaryOk /\ \A i \in 1..Len(earlier) :
                        earlier[i].kind = "read" => ~earlier[i].degraded
    THEN [source |-> "primary", degraded |-> FALSE]
    ELSE [source |-> "secondary", degraded |-> TRUE]
ReadRoute(primaryOk, earlier) ==
    IF primaryOk THEN [source |-> "primary", degraded |-> FALSE]
    ELSE [source |-> "secondary", degraded |-> TRUE]

\* write(op): the primary runs it; on success the secondary sync is started,
\* detached, and the caller has its answer.
HybridWrite(kind, primaryOk) ==
    /\ hOps' = Append(hOps, [kind |-> kind, primaryOk |-> primaryOk,
                             result |-> WriteResult(primaryOk, "none"),
                             source |-> "primary", degraded |-> FALSE])
    /\ syncQueue' = IF IssuesSecondary(primaryOk)
                    THEN syncQueue \cup {Len(hOps) + 1} ELSE syncQueue
    /\ UNCHANGED <<secondaryLog, replErrors>>

\* A detached sync ends: written to the secondary, or failed and recorded.
\* A sync may also never end: nothing forces this step.
SyncEnds(id, ok) ==
    /\ id \in syncQueue
    /\ syncQueue' = syncQueue \ {id}
    /\ secondaryLog' = IF ok THEN secondaryLog \cup {id} ELSE secondaryLog
    /\ replErrors' = IF ok THEN replErrors ELSE replErrors \cup {id}
    /\ hOps' = [hOps EXCEPT ![id].result =
                   WriteResult(hOps[id].primaryOk, IF ok THEN "done" ELSE "failed")]

\* read(op): the primary runs it; when that fails the secondary runs it and
\* its result is returned, marked degraded.
HybridRead(primaryOk, secondaryOk) ==
    /\ hOps' = Append(hOps,
           [kind |-> "read", primaryOk |-> primaryOk,
            result |-> IF ReadRoute(primaryOk, hOps).source = "primary" \/ secondaryOk
                       THEN "success" ELSE "error",
            source |-> ReadRoute(primaryOk, hOps).source,
            degraded |-> ReadRoute(primaryOk, hOps).degraded])
    /\ UNCHANGED <<syncQueue, secondaryLog, replErrors>>

-----------------------------------------------------------------------------
\* The IPC handlers (modules/ipc/ipcManager.js). A handler awaits one or two
\* calls on this.database inside a try block and resolves with a value built
\* from what the calls gave. What this.database is (a driver, the adapter) is
\* decided elsewhere, so a call's outcome is any of: thrown, rejected, or
\* resolved with a driver-shaped or an envelope-shaped result.

DbResults ==
    LET readings == List(<<[timestamp |-> Num(1)], [timestamp |-> Num(2)]>>)
    IN  {List(<<>>), readings,
         [insertId |-> Str(<<"1">>), affectedRows |-> Num(1)],
         [affectedRows |-> Num(0)],
         [success |-> Bool(TRUE), data |-> readings],
         [success |-> Bool(TRUE), data |-> Num(2)],
         [success |-> Bool(TRUE), affectedRows |-> Num(1)],
         [success |-> Bool(TRUE), affectedRows |-> Num(0)],
         [success |-> Bool(FALSE), error |-> "db down"]}
DbOutcomes ==
    {[settled |-> "thrown", message |-> "db down"],
     [settled |-> "rejected", message |-> "db down"]}
    \cup {[settled |-> "resolved", value |-> v] : v \in DbResults}

IpcIdle ==
    /\ ipcCall = [channel |-> "none"]
    /\ ipcReply = Undefined

\* setupDatabaseHandlers (26-92): seven handlers of one pattern.
InvokeDatabase(channel, o) ==
    /\ ipcCall' = [channel |-> channel, first |-> o]
    /\ ipcReply' =
         IF o.settled # "resolved"
         THEN [success |-> Bool(FALSE), error |-> o.message]
         ELSE CASE channel \in {"get-users", "get-data-by-filters"} ->
                      [success |-> Bool(TRUE), data |-> o.value]
                [] channel \in {"insert-user", "post-data", "insert-data"} ->
                      [success |-> Bool(TRUE), id |-> FieldOf(o.value, "insertId")]
                [] channel \in {"update-data", "delete-data"} ->
                      [success |-> Bool(TRUE),
                       affectedRows |-> FieldOf(o.value, "affectedRows")]

\* 'check-database-connection' (275-288).
CheckConnection(hasDatabase, hasAdapter, health) ==
    /\ ipcCall' = [channel |-> "check-database-connection", hasDatabase |-> hasDatabase,
                   hasAdapter |-> hasAdapter, health |-> health]
    /\ ipcReply' =
         IF ~hasDatabase THEN Bool(FALSE)
         ELSE IF ~hasAdapter THEN Bool(TRUE)
         ELSE IF health = "rejected" THEN Bool(FALSE)
         ELSE Bool(health = "connected")

\* The other handlers of setupMonitoringHandlers (291-466). type = "" is a
\* call without a type; second is the outcome of the handler's second
\* database call, read only by the handlers that make one.
InvokeMonitoring(channel, type, firstCall, second) ==
    LET Success(r) == FieldOf(r, "success") = Bool(TRUE)
        Failed == firstCall.settled # "resolved"
        IsList(v) == DOMAIN v = {"list"}
        Reverse(v) == List([i \in 1..Len(v.list) |-> v.list[Len(v.list) + 1 - i]])
        Typed(v, t) == [i \in 1..Len(v.list) |-> Put(v.list[i], "type", t)]
        \* result.success ? result.data.map(item => ({...item, type})) : []
        Mapped(r, t) == IF Success(r) THEN Typed(FieldOf(r, "data"), t) ELSE <<>>
        MapThrows(r) == Success(r) /\ ~IsList(FieldOf(r, "data"))
        \* Array.prototype.sort by timestamp, descending, stable
        Rank(xs, i) == Cardinality({j \in 1..Len(xs) :
                           \/ xs[j].timestamp.num > xs[i].timestamp.num
                           \/ xs[j].timestamp.num = xs[i].timestamp.num /\ j < i}) + 1
        Sorted(xs) == [p \in 1..Len(xs) |-> xs[CHOOSE i \in 1..Len(xs) : Rank(xs, i) = p]]
        Both == IF second.settled # "resolved" \/ MapThrows(firstCall.value)
                   \/ MapThrows(second.value)
                THEN List(<<>>)
                ELSE List(Sorted(Mapped(firstCall.value, "temperature")
                                 \o Mapped(second.value, "pressure")))
        \* 'delete-record': the second table is tried when the first deleted nothing
        Retried == ~Success(firstCall.value) \/ FieldOf(firstCall.value, "affectedRows") = Num(0)
        Deleted(r) == IF ~Success(r) THEN FieldOf(r, "success")
                      ELSE Bool(IsNum(FieldOf(r, "affectedRows"))
                                /\ FieldOf(r, "affectedRows").num > 0)
    IN
    /\ ipcCall' = [channel |-> channel, type |-> type, first |-> firstCall, second |-> second]
    /\ ipcReply' =
         CASE channel \in {"get-temperature-data", "get-pressure-data"} ->
                  IF Failed \/ MapThrows(firstCall.value) THEN List(<<>>)
                  ELSE IF Success(firstCall.value) THEN Reverse(FieldOf(firstCall.value, "data"))
                  ELSE List(<<>>)
           [] channel = "get-record-count" ->
                  IF Failed THEN Num(0)
                  ELSE IF Success(firstCall.value) THEN FieldOf(firstCall.value, "data")
                  ELSE Num(0)
           [] channel = "get-database-records" ->
                  IF Failed THEN List(<<>>)
                  ELSE IF type # ""
                       THEN IF Success(firstCall.value) THEN FieldOf(firstCall.value, "data")
                            ELSE List(<<>>)
                       ELSE Both
           [] channel = "get-filtered-records" ->
                  IF Failed THEN List(<<>>)
                  ELSE IF type # ""
                       THEN IF MapThrows(firstCall.value) THEN List(<<>>)
                            ELSE List(Mapped(firstCall.value, type))
                       ELSE Both
           [] channel \in {"clear-records", "insert-temperature-data",
                           "insert-pressure-data"} ->
                  IF Failed THEN Bool(FALSE) ELSE FieldOf(firstCall.value, "success")
           [] channel = "delete-record" ->
                  IF Failed THEN Bool(FALSE)
                  ELSE IF ~Retried THEN Deleted(firstCall.value)
                  ELSE IF second.settled # "resolved" THEN Bool(FALSE)
                  ELSE Deleted(second.value)

-----------------------------------------------------------------------------
\* The database manager (modules/database/databaseManager.js). Before the
\* process is started there is no manager.

ManagerIdle ==
    /\ processEnv = EmptyMap
    /\ dbType = "none"
    /\ db = "null"
    /\ dbAdapter = "null"
    /\ managerPc = "none"

\* process.env.X as a condition: set and not the empty string.
EnvSet(env, name) == name \in DOMAIN env /\ env[name] # ""

\* The process is started under env and the constructor runs (10-19).
DatabaseManager(env) ==
    /\ managerPc \in {"none", "failed", "closed", "closeFailed"}
    /\ processEnv' = env
    /\ db' = "null"
    /\ dbAdapter' = "null"
    /\ dbType' = IF EnvSet(env, "USE_FIREBASE") /\ env["USE_FIREBASE"] = "true"
                     /\ ~EnvSet(env, "DB_TYPE")
                  THEN "firestore"
                  ELSE IF EnvSet(env, "DB_TYPE") THEN env["DB_TYPE"] ELSE "mysql"
    /\ managerPc' = "constructed"

\* initialize() (21-84). connected is whether the awaited call, the
\* adapter's initialize() or the legacy class's connect(), resolved.
supportedTypes == {"mysql", "firestore", "cosmosdb", "hybrid", "hybrid-cosmos"}
initialize(connected) ==
    /\ managerPc = "constructed"
    /\ IF dbType \in supportedTypes
       THEN /\ dbAdapter' = "adapter"
            /\ db' = IF connected THEN "adapter" ELSE db
       ELSE /\ db' = IF dbType \in {"firebase", "firestore"} THEN "FirebaseDB"
                     ELSE IF dbType = "cosmosdb" THEN "CosmosDB"
                     ELSE "Database"
            /\ UNCHANGED dbAdapter
    /\ managerPc' = IF connected THEN "initialized" ELSE "failed"
    /\ UNCHANGED <<processEnv, dbType>>

\* close() (107-117): closes this.db when there is one, and keeps it.
ManagerClose(closed) ==
    /\ managerPc \in {"initialized", "failed"}
    /\ managerPc' = IF db = "null" \/ closed THEN "closed" ELSE "closeFailed"
    /\ UNCHANGED <<processEnv, dbType, db, dbAdapter>>

-----------------------------------------------------------------------------
\* scripts/switch-db.js. The content of .env is a string over tokens: a
\* token stands for a run of characters without "=", "#", blank or newline
\* ("DB_TYPE", "A", "mysql"), or is one of those four characters.

\* lib/db/cosmosDB.js, class CosmosDB: constructor (337-342), connect()
\* (344-370) and close() (619-630). connected and closed are whether
\* client.connect() and client.close() resolved.
CosmosDB ==
    /\ client = 0
    /\ cosmosDb = 0
    /\ isConnected = FALSE
    /\ made = 0
    /\ live = {}
    /\ lastCall = [op |-> "none"]

connect(connected) ==
    /\ made' = made + 1
    /\ client' = made + 1
    /\ IF connected
       THEN /\ cosmosDb' = made + 1
            /\ isConnected' = TRUE
            /\ live' = live \cup {made + 1}
            /\ lastCall' = [op |-> "connect", outcome |-> "resolved"]
       ELSE /\ lastCall' = [op |-> "connect", outcome |-> "rejected"]
            /\ UNCHANGED <<cosmosDb, isConnected, live>>

close(closed) ==
    /\ IF client # 0 /\ isConnected /\ closed
       THEN /\ isConnected' = FALSE
            /\ live' = live \ {client}
       ELSE UNCHANGED <<isConnected, live>>
    /\ lastCall' = [op |-> "close", outcome |-> "resolved"]
    /\ UNCHANGED <<client, cosmosDb, made>>

-----------------------------------------------------------------------------
SwitchIdle ==
    /\ envFile = <<>>
    /\ envBefore = <<>>
    /\ argv = "(none)"
    /\ exitStatus = Null

validDbTypes == {"mysql", "firebase", "cosmosdb", "hybrid", "hybrid-cosmos"}

\* String.prototype.trim and split('\n').
Trim(str) ==
    LET solid == {i \in 1..Len(str) : str[i] \notin {" ", "\n"}}
    IN  IF solid = {} THEN <<>>
        ELSE SubSeq(str, CHOOSE i \in solid : \A j \in solid : i <= j,
                         CHOOSE i \in solid : \A j \in solid : j <= i)
Split(str) ==
    LET breaks == {i \in 1..Len(str) : str[i] = "\n"}
        Break(k) == IF k = 0 THEN 0
                    ELSE IF k > Cardinality(breaks) THEN Len(str) + 1
                    ELSE CHOOSE i \in breaks : Cardinality({j \in breaks : j <= i}) = k
    IN  [k \in 1..Cardinality(breaks) + 1 |-> SubSeq(str, Break(k - 1) + 1, Break(k) - 1)]

\* How the script reads one line (29-43, 67-76).
IsCommentOrBlank(line) == Trim(line) = <<>> \/ Head(Trim(line)) = "#"
IndexOfEquals(line) ==
    LET at == {i \in 1..Len(line) : line[i] = "="}
    IN  IF at = {} THEN 0 ELSE CHOOSE i \in at : \A j \in at : i <= j
IsAssignment(line) == ~IsCommentOrBlank(line) /\ IndexOfEquals(line) # 0
KeyOf(line) == Trim(SubSeq(line, 1, IndexOfEquals(line) - 1))
ValueOf(line) == SubSeq(line, IndexOfEquals(line) + 1, Len(line))

\* The new content (24-95): envVars holds for each key the value of its last
\* assignment and the requested type for DB_TYPE; each line is written back
\* as it was, except the first assignment of each key, which is written as
\* key=envVars[key]; DB_TYPE is appended when no line assigned it; the
\* whole is trimmed and ended with a newline.
Rewrite(content, type) ==
    LET envLines == Split(content)
        Assigns(key) == {i \in 1..Len(envLines) :
                            IsAssignment(envLines[i]) /\ KeyOf(envLines[i]) = key}
        envVars(key) == IF key = <<"DB_TYPE">> THEN <<type>>
                        ELSE ValueOf(envLines[CHOOSE i \in Assigns(key) :
                                                 \A j \in Assigns(key) : j <= i])
        Written(i) ==
            IF IsAssignment(envLines[i])
               /\ \A j \in Assigns(KeyOf(envLines[i])) : i <= j
            THEN KeyOf(envLines[i]) \o <<"=">> \o envVars(KeyOf(envLines[i])) \o <<"\n">>
            ELSE envLines[i] \o <<"\n">>
        remaining == IF Assigns(<<"DB_TYPE">>) = {} THEN <<"DB_TYPE", "=", type, "\n">>
                     ELSE <<>>
        newEnvContent == Concat([i \in 1..Len(envLines) |-> Written(i)]) \o remaining
    IN  Trim(newEnvContent) \o <<"\n">>

\* The .env file is edited by hand.
EditEnv(content) ==
    /\ envFile' = content
    /\ envBefore' = content
    /\ argv' = "(none)"
    /\ exitStatus' = Null

\* One run of the script (5-133). fsOk is whether reading and writing the
\* file went through; a failure there ends in the catch of line 130.
SwitchDb(type, fsOk) ==
    /\ argv' = type
    /\ envBefore' = envFile
    /\ IF type \notin validDbTypes \/ ~fsOk
       THEN exitStatus' = Num(1) /\ UNCHANGED envFile
       ELSE exitStatus' = Num(0) /\ envFile' = Rewrite(envFile, type)

-----------------------------------------------------------------------------
\* The specifications.

MaxDocs == 2
MaxPageDocs == 3
MaxLimit == 2
MaxSkip == 2

Temps == {Num(20), Num(21), Num(22)}
Operands == {Num(20), Num(21)}
InLists == {<<>>, <<Num(20), Num(22)>>, <<Num(21), Null>>}
Rows == {[temperature |-> v] : v \in Temps \cup {Null}} \cup {EmptyMap}
ZeroIv == [i \in 1..IV_LENGTH |-> 0]
Others == UNCHANGED <<codecVars, subVars, hybridVars, appVars>>

\* Filters: documents are inserted and one builder is filtered and run.
Init ==
    /\ CodecIdle /\ QueryIdle /\ SubIdle /\ HybridIdle /\ IpcIdle /\ ManagerIdle /\ SwitchIdle
    /\ added = {} /\ CosmosDB
Next ==
    \/ \E r \in Rows : Len(docs) < MaxDocs /\ postData(r, ZeroIv) /\ Others
    \/ table /\ Others
    \/ \E op \in {"=", "==", "!=", "<>"}, v \in Operands \cup {Null} :
          where("temperature", op, v) /\ Others
    \/ \E op \in {">", ">=", "<", "<="}, v \in Operands :
          where("temperature", op, v) /\ Others
    \/ \E v \in Operands \cup {Null} : where2("temperature", v) /\ Others
    \/ \E vs \in InLists : whereIn("temperature", vs) /\ Others
    \/ \E vs \in InLists : whereNotIn("temperature", vs) /\ Others
    \/ \E a, b \in Temps : whereBetween("temperature", a, b) /\ Others
    \/ whereNull("temperature") /\ Others
    \/ whereNotNull("temperature") /\ Others
    \/ \E op \in {"=", ">"} : orWhere("temperature", op, Num(21)) /\ Others
    \/ get /\ Others
    \/ count /\ Others
Spec == Init /\ [][Next]_vars

\* Pages: a filtered builder is ordered, limited, skipped and run.
InitPage == Init
NextPage ==
    \/ \E v \in Temps : Len(docs) < MaxPageDocs /\ postData([temperature |-> v], ZeroIv) /\ Others
    \/ table /\ Others
    \/ \E v \in Operands : where("temperature", ">", v) /\ Others
    \/ \E d \in {"ASC", "desc"} : orderBy("temperature", d) /\ Others
    \/ orderByDesc("temperature") /\ Others
    \/ orderByAsc("temperature") /\ Others
    \/ \E n \in 0..MaxLimit, k \in {Null, Num(1)} : limit(Num(n), k) /\ Others
    \/ \E n \in 0..MaxLimit : take(Num(n)) /\ Others
    \/ \E k \in 0..MaxSkip : skip(Num(k)) /\ Others
    \/ get /\ Others
SpecPage == InitPage /\ [][NextPage]_vars

\* Codec: a string makes the round trip, or decrypt reads a foreign value.
InitCodec == Init
NextCodec ==
    \/ /\ codecPc = "idle"
       /\ \E x \in PlainTexts, iv \in IVs : Encrypt(x, iv)
       /\ UNCHANGED <<queryVars, subVars, hybridVars, appVars>>
    \/ DecryptWritten /\ UNCHANGED <<queryVars, subVars, hybridVars, appVars>>
    \/ /\ codecPc = "idle"
       /\ \E v \in ForeignValues : DecryptForeign(v)
       /\ UNCHANGED <<queryVars, subVars, hybridVars, appVars>>
SpecCodec == InitCodec /\ [][NextCodec]_vars


SubOthers == UNCHANGED <<codecVars, queryVars, hybridVars, appVars>>
InitSub == Init
NextSub ==
    \/ \E watchOk \in BOOLEAN : subscribe(watchOk) /\ SubOthers
    \/ \E t \in OperationTypes :
          EventArrives(ChangeEvent(t, Oid(1), Undefined)) /\ SubOthers
    \/ EventArrives(StreamError) /\ SubOthers
    \/ HandlerRuns /\ SubOthers
    \/ DriverDiscards /\ SubOthers
    \/ unsubscribe /\ SubOthers
    \/ CloseSettles /\ SubOthers
SpecSub == InitSub /\ [][NextSub]_vars

\* The driver's other calls: delete, raw queries, getDataByFilters, over
\* records that may hold a field named id.
MaxDriverDocs == 2
DriverRows == {[temperature |-> Num(20)],
               [temperature |-> Num(21), id |-> Str(<<"7">>)],
               [id |-> Str(<<"7">>)],
               [name |-> Str(<<"a">>)],
               [name |-> Str(<<"1">>), serial |-> Str(<<"1">>)]}
FilterObjects == {EmptyMap, [temperature |-> Num(20)]}
OptionSets == {EmptyMap, [count |-> TRUE], [limit |-> Num(1)],
               [orderBy |-> Words(<<"temperature">>)],
               [orderBy |-> Words(<<"temperature", "asc">>)]}
InitDriver == Init
NextDriver ==
    \/ \E r \in DriverRows : Len(inserted) < MaxDriverDocs /\ postData(r, ZeroIv) /\ Others
    \/ table /\ Others
    \/ where2("temperature", Num(20)) /\ Others
    \/ get /\ Others
    \/ count /\ Others
    \/ delete /\ Others
    \/ raw(<<"SELECT 1">>) /\ Others
    \/ query(<<"SELECT 1">>) /\ Others
    \/ \E fs \in FilterObjects, options \in OptionSets :
          getDataByFilters(fs, options) /\ Others
SpecDriver == InitDriver /\ [][NextDriver]_vars

\* Notifications of inserts: a subscriber on the collection, records posted.
MaxNotifyDocs == 2
NotifyRows == {[name |-> Str(<<"a">>)], [name |-> Str(<<"1">>)], [name |-> Null],
               [temperature |-> Num(20)],
               [temperature |-> Num(21), email |-> Str(<<"a", "a">>)]}
NotifyIvs == {ZeroIv, [i \in 1..IV_LENGTH |-> 1]}
InitNotify == Init
NextNotify ==
    \/ \E watchOk \in BOOLEAN :
          subscribe(watchOk) /\ UNCHANGED <<codecVars, queryVars, hybridVars, appVars>>
    \/ \E data \in NotifyRows, iv \in NotifyIvs :
          /\ Len(docs) < MaxNotifyDocs
          /\ InsertWatched(data, iv)
          /\ UNCHANGED <<codecVars, hybridVars, appVars>>
    \/ HandlerRuns /\ UNCHANGED <<codecVars, queryVars, hybridVars, appVars>>
SpecNotify == InitNotify /\ [][NextNotify]_vars

\* Writes under a filter: records with and without an encrypted field are
\* inserted, then read, updated and deleted through the builder and through
\* updateData / deleteData with MySQL-style clauses.
MaxWriteDocs == 2
WriteRows == {[temperature |-> Num(20)], [temperature |-> Num(21)],
              [name |-> Str(<<"a">>), temperature |-> Num(20)]}
Patches == {EmptyMap, [temperature |-> Num(22)]}
WhereClauses == {<<"id", "=", "?">>,
                 <<"temperature", "=", "?">>,
                 <<"temperature", "<>", "?">>,
                 <<"temperature", "=", "?", "AND", "temperature", "!=", "?">>,
                 <<"temperature", "<>", "?", "OR", "temperature", "=", "?">>}
WhereParams == {<<>>, <<Num(20)>>, <<Str(<<"1">>)>>, <<Num(20), Num(21)>>}
NextWrite ==
    \/ \E r \in WriteRows : Len(inserted) < MaxWriteDocs /\ postData(r, ZeroIv) /\ Others
    \/ table /\ Others
    \/ where2("name", Str(<<"a">>)) /\ Others
    \/ where2("temperature", Num(20)) /\ Others
    \/ get /\ Others
    \/ \E data \in Patches : update(data, ZeroIv) /\ Others
    \/ delete /\ Others
    \/ \E data \in Patches, whereClause \in WhereClauses, whereParams \in WhereParams :
          updateData(data, ZeroIv, whereClause, whereParams) /\ Others
    \/ \E whereClause \in WhereClauses, whereParams \in WhereParams :
          deleteData(whereClause, whereParams) /\ Others
SpecWrite == Init /\ [][NextWrite]_vars

\* Conjunctions: conditions are added to one builder one after another,
\* on the same field and on _id, and the builder is run; added keeps what
\* was put to it.
MaxConjDocs == 2
Adding(field, c) == added' = added \cup {[field |-> field, condition |-> c]}
ConjOthers == UNCHANGED <<codecVars, subVars, hybridVars, ipcVars, managerVars, switchVars, connVars>>
NextConj ==
    \/ \E v \in {Num(20), Num(21), Num(22)} :
          /\ Len(inserted) < MaxConjDocs
          /\ postData([temperature |-> v], ZeroIv)
          /\ UNCHANGED added /\ ConjOthers
    \/ table /\ added' = {} /\ ConjOthers
    \/ \E c \in {Cond(">", Num(20)), Cond("<", Num(22))} :
          where("temperature", c.operator, c.value) /\ Adding("temperature", c) /\ ConjOthers
    \/ where2("_id", Oid(1)) /\ Adding("_id", Cond("=", Oid(1))) /\ ConjOthers
    \/ whereBetween("temperature", Num(20), Num(21))
          /\ Adding("temperature", Cond("between", <<Num(20), Num(21)>>)) /\ ConjOthers
    \/ whereNotNull("temperature")
          /\ Adding("temperature", Cond("not-null", Undefined)) /\ ConjOthers
    \/ get /\ UNCHANGED added /\ ConjOthers
    \/ count /\ UNCHANGED added /\ ConjOthers
SpecConj == Init /\ [][NextConj]_vars

\* Terminal calls: one builder is run by first, pluck, count, exists and
\* get, again and again.
MaxTerminalDocs == 3
NextTerminal ==
    \/ \E v \in {Num(20), Num(21)} :
          Len(inserted) < MaxTerminalDocs /\ postData([temperature |-> v], ZeroIv) /\ Others
    \/ table /\ Others
    \/ where("temperature", ">", Num(20)) /\ Others
    \/ orderByAsc("temperature") /\ Others
    \/ \E n \in 1..2 : take(Num(n)) /\ Others
    \/ skip(Num(1)) /\ Others
    \/ \E fields \in {<<"temperature">>, <<"temperature", "created_at">>} :
          select(fields) /\ Others
    \/ get /\ Others
    \/ first /\ Others
    \/ pluck("temperature") /\ Others
    \/ count /\ Others
    \/ exists /\ Others
SpecTerminal == Init /\ [][NextTerminal]_vars

\* The connection: connect() and close() in any order, with any outcome.
MaxClients == 5
NextConn ==
    \/ \E connected \in BOOLEAN :
          /\ made < MaxClients
          /\ connect(connected)
          /\ UNCHANGED <<codecVars, queryVars, subVars, hybridVars, ipcVars, managerVars, switchVars, added>>
    \/ \E closed \in BOOLEAN :
          /\ close(closed)
          /\ UNCHANGED <<codecVars, queryVars, subVars, hybridVars, ipcVars, managerVars, switchVars, added>>
SpecConn == Init /\ [][NextConn]_vars

\* IPC: any handler is invoked, with any outcome of its database calls.
NoSecond == [settled |-> "none"]
NextIpc ==
    \/ \E channel \in {"get-users", "insert-user", "post-data", "insert-data",
                        "update-data", "delete-data", "get-data-by-filters"},
          o \in DbOutcomes :
          InvokeDatabase(channel, o)
          /\ UNCHANGED <<codecVars, queryVars, subVars, hybridVars, managerVars, switchVars, added, connVars>>
    \/ \E hasDatabase, hasAdapter \in BOOLEAN,
          health \in {"connected", "disconnected", "rejected"} :
          CheckConnection(hasDatabase, hasAdapter, health)
          /\ UNCHANGED <<codecVars, queryVars, subVars, hybridVars, managerVars, switchVars, added, connVars>>
    \/ \E channel \in {"get-temperature-data", "get-pressure-data", "get-record-count",
                        "clear-records", "insert-temperature-data",
                        "insert-pressure-data"},
          o \in DbOutcomes :
          InvokeMonitoring(channel, "", o, NoSecond)
          /\ UNCHANGED <<codecVars, queryVars, subVars, hybridVars, managerVars, switchVars, added, connVars>>
    \/ \E channel \in {"get-database-records", "get-filtered-records"},
          type \in {"temperature", "pressure"}, o \in DbOutcomes :
          InvokeMonitoring(channel, type, o, NoSecond)
          /\ UNCHANGED <<codecVars, queryVars, subVars, hybridVars, managerVars, switchVars, added, connVars>>
    \/ \E channel \in {"get-database-records", "get-filtered-records", "delete-record"},
          firstCall \in DbOutcomes, second \in DbOutcomes :
          InvokeMonitoring(channel, "", firstCall, second)
          /\ UNCHANGED <<codecVars, queryVars, subVars, hybridVars, managerVars, switchVars, added, connVars>>
SpecIpc == Init /\ [][NextIpc]_vars

\* The manager: the process is started under any setting of DB_TYPE and
\* USE_FIREBASE, the manager is initialized and closed, the process restarted.
DbTypeSettings == supportedTypes \cup {"firebase", "postgres", ""}
EnvSettings ==
    {env \in UNION {[names -> DbTypeSettings \cup {"true", "false"}] :
                       names \in SUBSET {"DB_TYPE", "USE_FIREBASE"}} :
        /\ "DB_TYPE" \in DOMAIN env => env["DB_TYPE"] \in DbTypeSettings
        /\ "USE_FIREBASE" \in DOMAIN env => env["USE_FIREBASE"] \in {"true", "false"}}
NextManager ==
    \/ \E env \in EnvSettings :
          DatabaseManager(env) /\ UNCHANGED <<codecVars, queryVars, subVars, hybridVars, ipcVars, switchVars, added, connVars>>
    \/ \E connected \in BOOLEAN :
          initialize(connected) /\ UNCHANGED <<codecVars, queryVars, subVars, hybridVars, ipcVars, switchVars, added, connVars>>
    \/ \E closed \in BOOLEAN :
          ManagerClose(closed) /\ UNCHANGED <<codecVars, queryVars, subVars, hybridVars, ipcVars, switchVars, added, connVars>>
SpecManager == Init /\ [][NextManager]_vars

\* switch-db: .env files of up to MaxEnvLines lines, among them blank
\* lines, comments, repeated keys and repeated DB_TYPE settings.
MaxEnvLines == 2
EnvLines == {<<>>, <<"#", "A", "=", "1">>, <<"A">>,
             <<"DB_TYPE", "=", "mysql">>, <<"DB_TYPE", "=", "hybrid">>,
             <<"A", "=", "1">>, <<"A", " ", "=", "2">>, <<"B", "=", "1">>}
EnvContents ==
    {Concat([i \in DOMAIN ls |-> ls[i] \o <<"\n">>]) : ls \in SeqsUpTo(EnvLines, MaxEnvLines)}
NextSwitch ==
    \/ \E content \in EnvContents :
          EditEnv(content)
          /\ UNCHANGED <<codecVars, queryVars, subVars, hybridVars, ipcVars, managerVars, added, connVars>>
    \/ \E type \in validDbTypes \cup {"firestore", "(none)"}, fsOk \in BOOLEAN :
          SwitchDb(type, fsOk)
          /\ UNCHANGED <<codecVars, queryVars, subVars, hybridVars, ipcVars, managerVars, added, connVars>>
SpecSwitch == Init /\ [][NextSwitch]_vars

HybridOthers == UNCHANGED <<codecVars, queryVars, subVars, appVars>>
InitHybrid == Init
NextHybrid ==
    \/ \E kind \in WriteKinds, primaryOk \in BOOLEAN :
          Len(hOps) < MaxHybridOps /\ HybridWrite(kind, primaryOk) /\ HybridOthers
    \/ \E primaryOk \in BOOLEAN, secondaryOk \in BOOLEAN :
          Len(hOps) < MaxHybridOps /\ HybridRead(primaryOk, secondaryOk) /\ HybridOthers
    \/ \E id \in syncQueue, ok \in BOOLEAN : SyncEnds(id, ok) /\ HybridOthers
SpecHybrid == InitHybrid /\ [][NextHybrid]_vars

-----------------------------------------------------------------------------
\* Claims about the codec (SpecCodec).

WellFormed(s) == \A i \in 1..Len(s) : s[i] \in WellFormedChars

\* C9, as stated: for every string x, decrypt(encrypt(x)) = x, whichever
\* iv encrypt drew.
C9_RoundTripEveryString ==
    codecPc = "roundtrip" => plain = text

\* C9, amended: for every string x that holds no unpaired surrogate,
\* decrypt(encrypt(x)) = x, whichever iv encrypt drew.
C9_RoundTripWellFormed ==
    (codecPc = "roundtrip" /\ WellFormed(text.str)) => plain = text

\* A two-character text with a colon in it, two blocks long once padded,
\* encrypted under a non-zero iv, came back from decrypt.
C9_Witness ==
    /\ codecPc = "roundtrip"
    /\ Len(text.str) = 2
    /\ HasColon(text.str)
    /\ HexDecode(IvPart(cipherText.str)) # ZeroIv
    /\ Len(DataPart(cipherText.str)) = 2 * BlockLen
    /\ plain = text

\* C10: decrypt returns every input that encrypt did not write under the
\* current key unchanged (it cannot raise: the model's decrypt is total, as
\* the catch-all of the source makes it).
C10_FailOpenEveryForeignInput ==
    (codecPc = "foreign" /\ ~IsEncryptOutput(cipherText)) => plain = cipherText

-----------------------------------------------------------------------------
\* Claims about the query builder (Spec, SpecPage).

\* What each operator means for one field value, stated apart from the
\* compiled query: a missing field counts as null, an order comparison
\* holds between numbers only.
SameValue(a, b) == IF IsNullish(a) THEN IsNullish(b) ELSE a = b
Satisfies(c, dv) ==
    CASE c.operator \in {"=", "=="} -> SameValue(c.value, dv)
      [] c.operator \in {"!=", "<>"} -> ~SameValue(c.value, dv)
      [] c.operator = ">" -> IsNum(dv) /\ dv.num > c.value.num
      [] c.operator = ">=" -> IsNum(dv) /\ dv.num >= c.value.num
      [] c.operator = "<" -> IsNum(dv) /\ dv.num < c.value.num
      [] c.operator = "<=" -> IsNum(dv) /\ dv.num <= c.value.num
      [] c.operator = "in" -> \E i \in 1..Len(c.value) : SameValue(c.value[i], dv)
      [] c.operator = "not-in" -> \A i \in 1..Len(c.value) : ~SameValue(c.value[i], dv)
      [] c.operator = "between" ->
            IsNum(dv) /\ c.value[1].num <= dv.num /\ dv.num <= c.value[2].num
      [] c.operator = "null" -> IsNullish(dv)
      [] c.operator = "not-null" -> ~IsNullish(dv)
CoveredOps == {"=", "==", "!=", "<>", ">", ">=", "<", "<=", "in", "not-in",
               "between", "null", "not-null"}
SatisfiesAll(doc) == \A f \in DOMAIN filters : Satisfies(filters[f], FieldOf(doc, f))
Range(seq) == {seq[i] : i \in 1..Len(seq)}
ReturnedIds == {lastReturn.records[i]["_id"] : i \in 1..Len(lastReturn.records)}

\* C6: for each of the operators eq, neq, gt, gte, lt, lte, in, not-in,
\* between, is-null, not-null and every operand put to the builder, get() on
\* a builder without alternatives, limit or offset returns exactly the
\* documents whose field value satisfies the operator with that operand,
\* each once; between is inclusive.
AskedAll(doc) == \A f \in DOMAIN asked : Satisfies(asked[f], FieldOf(doc, f))
C6_EveryOperandSelectsExactly ==
    (/\ lastReturn.op = "get"
     /\ orConditions = <<>>
     /\ ~Truthy(limitCount)
     /\ SkipOf(offsetCount) = 0
     /\ "_id" \notin DOMAIN asked
     /\ \A f \in DOMAIN asked : asked[f].operator \in CoveredOps)
    => /\ ReturnedIds = {d["_id"] : d \in {e \in Range(docs) : AskedAll(e)}}
       /\ Cardinality(ReturnedIds) = Len(lastReturn.records)

\* The part of C6 that the builder keeps: the same for the conditions the
\* builder holds, which are the ones put to it except an empty in-list.
C6_FilterSelectsExactly ==
    (/\ lastReturn.op = "get"
     /\ orConditions = <<>>
     /\ ~Truthy(limitCount)
     /\ SkipOf(offsetCount) = 0
     /\ "_id" \notin DOMAIN filters
     /\ \A f \in DOMAIN filters : filters[f].operator \in CoveredOps)
    => /\ ReturnedIds = {d["_id"] : d \in {e \in Range(docs) : SatisfiesAll(e)}}
       /\ Cardinality(ReturnedIds) = Len(lastReturn.records)

\* whereBetween(20, 21) over documents holding 20 and 22 returned the one
\* holding the lower end and left the 22 out.
C6_Witness ==
    /\ lastReturn.op = "get"
    /\ orConditions = <<>>
    /\ DOMAIN filters = {"temperature"}
    /\ filters["temperature"] = Cond("between", <<Num(20), Num(21)>>)
    /\ Len(docs) = 2
    /\ FieldOf(docs[1], "temperature") = Num(20)
    /\ FieldOf(docs[2], "temperature") = Num(22)
    /\ Len(lastReturn.records) = 1
    /\ FieldOf(lastReturn.records[1], "temperature") = Num(20)

\* C8: once a terminal call has compiled the builder, every orWhere
\* alternative with an operator other than '=' is in its $or branch with
\* that operator (or the call was rejected, which no call of the driver is).
C8_OrAlternativeNeverDropped ==
    lastReturn.op \in {"get", "count"} =>
        \A i \in 1..Len(orConditions) : \A f \in DOMAIN orConditions[i] :
            orConditions[i][f].operator # "=" =>
                /\ f \in DOMAIN buildMongoQuery(filters, orConditions).or[i]
                /\ buildMongoQuery(filters, orConditions).or[i][f] = Compile(orConditions[i][f])

\* C21: with where-conditions and orWhere alternatives compared for
\* equality, get() returns exactly the documents that satisfy every
\* where-condition or satisfy at least one alternative.
SatisfiesSome(doc) ==
    \E i \in 1..Len(orConditions) :
        \A f \in DOMAIN orConditions[i] : Satisfies(orConditions[i][f], FieldOf(doc, f))
C21_OrWhereIsDisjunction ==
    (/\ lastReturn.op = "get"
     /\ orConditions # <<>>
     /\ \A i \in 1..Len(orConditions) : \A f \in DOMAIN orConditions[i] :
           orConditions[i][f].operator = "="
     /\ filters # EmptyMap
     /\ asked = filters
     /\ ~Truthy(limitCount)
     /\ SkipOf(offsetCount) = 0
     /\ "_id" \notin DOMAIN filters
     /\ \A f \in DOMAIN filters : filters[f].operator \in CoveredOps)
    => ReturnedIds = {d["_id"] : d \in {e \in Range(docs) : SatisfiesAll(e) \/ SatisfiesSome(e)}}

\* C25: when the condition last put on a field is whereIn with an empty
\* list, get() returns no record and count() returns 0.
C25_EmptyInListSelectsNothing ==
    (\E f \in DOMAIN asked : asked[f] = Cond("in", <<>>)) =>
        /\ lastReturn.op = "get" => lastReturn.records = <<>>
        /\ lastReturn.op = "count" => lastReturn.value = 0

\* C26: every record get() returns satisfies every condition added to the
\* builder, and count() counts no record that fails one of them.
AddedAll(doc) == \A a \in added : Satisfies(a.condition, FieldOf(doc, a.field))
C26_ConjunctionNeverWeakened ==
    /\ lastReturn.op = "get" =>
          \A i \in 1..Len(lastReturn.records) : AddedAll(lastReturn.records[i])
    /\ lastReturn.op = "count" =>
          lastReturn.value <= Cardinality({i \in 1..Len(docs) : AddedAll(docs[i])})

\* C28: first() returns the head of a list get() could have returned, or
\* null when there is none, and after first(), pluck(f), count() or exists()
\* the builder would return to get() what it would have returned before.
C28_TerminalCallsKeepQuerySpec ==
    [][lastReturn'.op \in {"first", "pluck", "count", "exists"} =>
          /\ Results(limitCount, selectFields)' = Results(limitCount, selectFields)
          /\ lastReturn'.op = "first" =>
                \E records \in Results(limitCount, selectFields) :
                    lastReturn'.record = IF Len(records) > 0 THEN records[1] ELSE Null]_vars

\* C29: after an initialize() that rejected, getDatabase() and
\* getDatabaseAdapter() return null, as they did before the call.
C29_FailedInitializeLeavesNothing ==
    managerPc = "failed" => db = "null" /\ dbAdapter = "null"

\* C30: after a connect() isConnected is true only when that connect()
\* resolved; close() resolves; a close() without a live connection changes
\* nothing; and after a close() that leaves the driver disconnected no client
\* whose connect() resolved is still open.
C30_ConnectionLifecycle ==
    [][/\ lastCall'.op = "connect" /\ isConnected' => lastCall'.outcome = "resolved"
       /\ lastCall'.op = "close" =>
             /\ lastCall'.outcome = "resolved"
             /\ ~isConnected => UNCHANGED <<client, cosmosDb, isConnected, live>>
             /\ ~isConnected' => live' = {}]_vars

\* The keys of a sequence of documents, and a sort of integers.
KeyNum(v) == IF IsNum(v) THEN v.num ELSE -1
RECURSIVE SortInts(_)
SortInts(s) ==
    IF s = <<>> THEN <<>>
    ELSE LET i == CHOOSE j \in 1..Len(s) : \A k \in 1..Len(s) : s[j] <= s[k]
         IN  <<s[i]>> \o SortInts(SubSeq(s, 1, i - 1) \o SubSeq(s, i + 1, Len(s)))
Reverse(s) == [i \in 1..Len(s) |-> s[Len(s) + 1 - i]]
RECURSIVE KeysOfSatisfying(_)
KeysOfSatisfying(ds) ==
    IF ds = <<>> THEN <<>>
    ELSE (IF SatisfiesAll(Head(ds)) THEN <<KeyNum(FieldOf(Head(ds), orderField))>> ELSE <<>>)
         \o KeysOfSatisfying(Tail(ds))
ExpectedKeys ==
    LET sorted == IF orderDirection = 1 THEN SortInts(KeysOfSatisfying(docs))
                  ELSE Reverse(SortInts(KeysOfSatisfying(docs)))
        k == offsetCount.num
        last == IF limitCount = Null \/ k + limitCount.num > Len(sorted)
                THEN Len(sorted) ELSE k + limitCount.num
    IN  SubSeq(sorted, k + 1, last)

\* C7: on a builder with an order, a limit n >= 1 or none, and an offset
\* k >= 0, get() returns the records at positions [k, k+n) of the filtered
\* documents in the requested order (all from k on without a limit), so
\* fewer than n when k+n exceeds their number; each record is one of the
\* filtered documents and none is returned twice.
C7_PageOfOrderedFiltered ==
    (/\ lastReturn.op = "get"
     /\ orConditions = <<>>
     /\ orderField # NoField
     /\ limitCount = Null \/ limitCount.num >= 1
     /\ offsetCount.num >= 0)
    => /\ [i \in 1..Len(lastReturn.records) |->
              KeyNum(FieldOf(lastReturn.records[i], orderField))] = ExpectedKeys
       /\ Cardinality(ReturnedIds) = Len(lastReturn.records)
       /\ ReturnedIds \subseteq {d["_id"] : d \in {e \in Range(docs) : SatisfiesAll(e)}}

\* Over 20, 21, 22 filtered by temperature > 20 and ordered descending,
\* limit(2).skip(1) returned the single record 21: fewer than the limit.
C7_Witness ==
    /\ lastReturn.op = "get"
    /\ Len(docs) = 3
    /\ \A i \in 1..3 : FieldOf(docs[i], "temperature") = Num(19 + i)
    /\ DOMAIN filters = {"temperature"}
    /\ filters["temperature"] = Cond(">", Num(20))
    /\ orderField = "temperature"
    /\ orderDirection = -1
    /\ limitCount = Num(2)
    /\ offsetCount = Num(1)
    /\ Len(lastReturn.records) = 1
    /\ FieldOf(lastReturn.records[1], "temperature") = Num(21)

\* C16: the limit a get() executes under is absent or an integer of at
\* least 1, and the offset is an integer of at least 0.
C16_ExecutedLimitPositive ==
    lastReturn.op = "get" =>
        /\ limitCount = Null \/ (IsNum(limitCount) /\ limitCount.num >= 1)
        /\ IsNum(offsetCount) /\ offsetCount.num >= 0

\* C13: a raw query, by the builder's raw or the driver's query, is
\* rejected to its caller; it does not resolve with a list.
C13_RawQueryRejected ==
    lastReturn.op \in {"raw", "query"} => lastReturn.outcome = "rejected"

\* The documents a filters object of plain values selects.
SelectedBy(fs) ==
    {i \in 1..Len(docs) : \A f \in DOMAIN fs : SameValue(fs[f], FieldOf(docs[i], f))}

\* C14: getDataByFilters called with options.count = true returns an
\* integer, the number of documents matching the filters, not a list.
C14_CountOptionReturnsInteger ==
    (/\ lastReturn.op = "getDataByFilters"
     /\ "count" \in DOMAIN lastReturn.options
     /\ lastReturn.options.count)
    => /\ "records" \notin DOMAIN lastReturn
       /\ "value" \in DOMAIN lastReturn
       /\ lastReturn.value = Cardinality(SelectedBy(lastReturn.filters))

\* C17: every record of a result has as id the string form of its _id, so
\* no two records of a result share an id.
C17_IdIsStoreAssigned ==
    lastReturn.op \in {"get", "getDataByFilters"} =>
        /\ \A i \in 1..Len(lastReturn.records) :
              lastReturn.records[i]["id"] = OidString(lastReturn.records[i]["_id"])
        /\ \A i, j \in 1..Len(lastReturn.records) :
              i # j => lastReturn.records[i]["id"] # lastReturn.records[j]["id"]

\* C22: each record a read returns holds, for every field of the record
\* that was inserted, the inserted value with its type, whether or not the
\* field is encrypted at rest.
C22_InsertedValuesComeBack ==
    lastReturn.op \in {"get", "getDataByFilters"} =>
        \A i \in 1..Len(lastReturn.records) :
            LET r == lastReturn.records[i]
            IN  \A k \in DOMAIN inserted[r["_id"].oid] : r[k] = inserted[r["_id"].oid][k]

\* C23: get() on a builder whose one condition is equality on the
\* encrypted field name returns exactly the records whose name reads as
\* the operand.
C23_FilterOnEncryptedField ==
    (/\ lastReturn.op = "get"
     /\ orConditions = <<>>
     /\ DOMAIN filters = {"name"}
     /\ filters["name"].operator = "="
     /\ ~Truthy(limitCount)
     /\ SkipOf(offsetCount) = 0)
    => ReturnedIds = {d["_id"] : d \in {e \in Range(docs) :
                          FieldOf(Exposed(e), "name") = filters["name"].value}}

\* C24: updateData and deleteData under 'id = ?' with the id that get()
\* exposes for a stored record affect one record, and deleteData removes
\* the record of that id.
C24_ExposedIdSelectsForWrite ==
    [][(/\ lastReturn'.op \in {"updateData", "deleteData"}
        /\ lastReturn'.outcome = "resolved"
        /\ lastReturn'.whereClause = <<"id", "=", "?">>
        /\ Len(lastReturn'.whereParams) = 1
        /\ \E i \in 1..Len(docs) : Exposed(docs[i])["id"] = lastReturn'.whereParams[1])
       => /\ lastReturn'.affectedRows = 1
          /\ lastReturn'.op = "deleteData" =>
                /\ Len(docs') = Len(docs) - 1
                /\ \A j \in 1..Len(docs') :
                      Exposed(docs'[j])["id"] # lastReturn'.whereParams[1]]_vars

\* What a clause of conditions "field op ?" joined by AND and OR means for
\* one record: the k-th "?" stands for the k-th parameter, a condition
\* without a parameter constrains nothing, AND binds tighter than OR.
SatisfiesClause(whereClause, whereParams, doc) ==
    LET marks == {q \in 3..Len(whereClause) : whereClause[q] = "?"}
        ParamOf(q) == Cardinality({p \in marks : p <= q})
        GroupOf(q) == Cardinality({i \in 1..q : whereClause[i] = "OR"})
    IN  \E g \in 0..GroupOf(Len(whereClause)) :
            \A q \in marks :
                (GroupOf(q) = g /\ ParamOf(q) <= Len(whereParams))
                => Satisfies(Cond(whereClause[q - 1], whereParams[ParamOf(q)]),
                             FieldOf(Exposed(doc), whereClause[q - 2]))

\* C27: updateData and deleteData change or remove no record that does
\* not satisfy their clause.
C27_WriteStaysWithinClause ==
    [][(lastReturn'.op \in {"updateData", "deleteData"} /\ lastReturn'.outcome = "resolved")
       => \A i \in 1..Len(docs) :
             (\A j \in 1..Len(docs') : docs'[j] # docs[i])
             => SatisfiesClause(lastReturn'.whereClause, lastReturn'.whereParams, docs[i])]_vars

\* C20: a delete() on a builder with no condition and no alternative
\* leaves the collection empty, the collection stays empty until a
\* postData, and a count() on the empty collection returns 0.
C20_DeleteAllThenCountZero ==
    /\ [][(lastReturn'.op = "delete" /\ filters = EmptyMap /\ orConditions = <<>>)
            => docs' = <<>>]_vars
    /\ [][(docs = <<>> /\ docs' # <<>>) => lastReturn'.op = "postData"]_vars
    /\ []((lastReturn.op = "count" /\ docs = <<>>) => lastReturn.value = 0)

\* Two records that no condition of the driver specification selects were
\* inserted, the collection is empty again, and count() on a builder without
\* conditions returned 0.
C20_Witness ==
    /\ lastReturn = [op |-> "count", value |-> 0]
    /\ docs = <<>>
    /\ filters = EmptyMap
    /\ orConditions = <<>>
    /\ Len(inserted) = 2
    /\ FieldOf(inserted[1], "temperature") = Undefined
    /\ FieldOf(inserted[2], "temperature") = Num(21)

-----------------------------------------------------------------------------
\* Claims about the IPC handlers (SpecIpc).

\* C15: whatever its database calls did, a database-facing handler resolves
\* with {success: true, ...} or with {success: false, error}.
C15_UniformReplyShape ==
    ipcCall.channel # "none" =>
        \/ FieldOf(ipcReply, "success") = Bool(TRUE)
        \/ FieldOf(ipcReply, "success") = Bool(FALSE) /\ "error" \in DOMAIN ipcReply

-----------------------------------------------------------------------------
\* Claims about the database manager (SpecManager).

\* C18: once initialize() has completed with a database in hand, dbType is
\* one of the five modes, and a DB_TYPE that is set to anything else has
\* not led to a connected database.
C18_ModeWithinEnumeration ==
    (managerPc = "initialized" /\ db # "null") =>
        /\ dbType \in supportedTypes
        /\ EnvSet(processEnv, "DB_TYPE") => processEnv["DB_TYPE"] \in supportedTypes

-----------------------------------------------------------------------------
\* Claims about switch-db (SpecSwitch).

\* The lines of a content: what stands before each newline, and what
\* stands after the last one when that is not empty.
LinesOf(content) ==
    LET pieces == Split(content)
    IN  IF pieces[Len(pieces)] = <<>> THEN SubSeq(pieces, 1, Len(pieces) - 1) ELSE pieces

\* The lines other than DB_TYPE settings, in order: a KEY=value line as its
\* key and its value, any other line as it stands.
OtherSettings(content) ==
    LET IsOther(line) == ~(IsAssignment(line) /\ KeyOf(line) = <<"DB_TYPE">>)
        others == SelectSeq(LinesOf(content), IsOther)
    IN  [i \in 1..Len(others) |->
            IF IsAssignment(others[i])
            THEN [key |-> KeyOf(others[i]), value |-> ValueOf(others[i])]
            ELSE [line |-> others[i]]]

\* C19: a run with a valid type leaves every line other than the DB_TYPE
\* settings as it was, in order, and every DB_TYPE setting then has the
\* requested type; a run with an invalid type exits with status 1 and
\* leaves the file as it was.
C19_OnlyDbTypeChanges ==
    exitStatus # Null =>
        IF argv \in validDbTypes /\ exitStatus = Num(0)
        THEN /\ OtherSettings(envFile) = OtherSettings(envBefore)
             /\ \A i \in 1..Len(LinesOf(envFile)) :
                   (IsAssignment(LinesOf(envFile)[i])
                    /\ KeyOf(LinesOf(envFile)[i]) = <<"DB_TYPE">>)
                   => ValueOf(LinesOf(envFile)[i]) = <<argv>>
        ELSE /\ envFile = envBefore
             /\ argv \notin validDbTypes => exitStatus = Num(1)

-----------------------------------------------------------------------------
\* Claims about subscriptions (SpecSub).

\* C1: when collection.watch() cannot establish the stream, subscribe
\* fails to its caller; it does not return a function.
C1_FailedWatchRejects == watchOutcome = "threw" => subReturn = "rejected"

\* C2: after the function returned by subscribe has returned, the callback
\* is not called again, neither for an event already in the driver nor for
\* a later stream error.
C2_NoCallbackAfterUnsubscribe == lateCalls = 0

\* C11: every notification the callback received has a type among insert,
\* update, delete and error, whatever kinds of native events arrived.
C11_NotificationTypeNormalized ==
    \A i \in 1..Len(delivered) : delivered[i].type \in ChangeTypes \cup {"error"}

\* The notifications delivered, and the events still in the driver, for
\* the j-th inserted record.
NotificationsFor(j) ==
    {i \in 1..Len(delivered) :
        delivered[i].type # "error" /\ delivered[i].id = OidString(Oid(j))}
PendingFor(j) ==
    {i \in 1..Len(pending) :
        ~IsStreamError(pending[i]) /\ pending[i].documentKey = Oid(j)}

\* C12 (SpecNotify): every record inserted under the subscription has one
\* notification, delivered or still to be delivered, never two; a delivered
\* one has type insert and its data holds every inserted field with the
\* inserted value.
C12_OneInsertNotificationWithFields ==
    \A j \in 1..Len(inserted) :
        /\ Cardinality(NotificationsFor(j)) + Cardinality(PendingFor(j)) = 1
        /\ \A i \in NotificationsFor(j) :
              /\ delivered[i].type = "insert"
              /\ \A k \in DOMAIN inserted[j] :
                    /\ k \in DOMAIN delivered[i].data
                    /\ delivered[i].data[k] = inserted[j][k]

-----------------------------------------------------------------------------
\* Claims about the hybrid coordinator (SpecHybrid).

IsWrite(op) == op.kind \in WriteKinds

\* C3: a write whose primary execution failed has the error as its result
\* and was never handed to the secondary: no sync of it is pending, done or
\* failed.
C3_FailedPrimaryNeverReachesSecondary ==
    \A i \in 1..Len(hOps) :
        (IsWrite(hOps[i]) /\ ~hOps[i].primaryOk)
        => /\ hOps[i].result = "error"
           /\ SyncState(i) = "none"

\* A failed insert lies between two writes whose syncs were issued.
C3_Witness ==
    /\ Len(hOps) = 3
    /\ hOps[2].kind = "insert" /\ ~hOps[2].primaryOk /\ hOps[2].result = "error"
    /\ hOps[1].kind = "update" /\ 1 \in secondaryLog
    /\ hOps[3].kind = "delete" /\ 3 \in syncQueue
    /\ SyncState(2) = "none"

\* C4: a write that succeeded on the primary has success as its result
\* while its sync is pending, after it is done and after it has failed.
C4_PrimarySuccessIsSuccess ==
    \A i \in 1..Len(hOps) :
        (IsWrite(hOps[i]) /\ hOps[i].primaryOk)
        => /\ hOps[i].result = "success"
           /\ SyncState(i) \in {"pending", "done", "failed"}

\* One successful write whose sync failed and one whose sync never ended.
C4_Witness ==
    /\ Len(hOps) >= 2
    /\ IsWrite(hOps[1]) /\ hOps[1].primaryOk /\ 1 \in replErrors
    /\ IsWrite(hOps[2]) /\ hOps[2].primaryOk /\ 2 \in syncQueue
    /\ hOps[1].result = "success" /\ hOps[2].result = "success"

\* C5: each read is routed by its own primary outcome: primary failed,
\* the secondary's result marked degraded; primary succeeded, the
\* primary's result unmarked, whatever the earlier reads were.
C5_ReadRoutedPerOperation ==
    \A i \in 1..Len(hOps) :
        hOps[i].kind = "read"
        => IF hOps[i].primaryOk
           THEN hOps[i].source = "primary" /\ ~hOps[i].degraded
                /\ hOps[i].result = "success"
           ELSE hOps[i].source = "secondary" /\ hOps[i].degraded

\* A degraded read served by the secondary, followed by an undegraded read
\* served by the primary.
C5_Witness ==
    /\ Len(hOps) >= 2
    /\ hOps[1].kind = "read" /\ ~hOps[1].primaryOk
    /\ hOps[1].degraded /\ hOps[1].source = "secondary" /\ hOps[1].result = "success"
    /\ hOps[2].kind = "read" /\ hOps[2].primaryOk
    /\ ~hOps[2].degraded /\ hOps[2].source = "primary"

====
